---- MODULE Spec2Model ----
(***************************************************************************)
(* A model of the Procreate document decoder and of the layer flattener of *)
(* mfauzaan/mica:                                                          *)
(*   - BlendingMode::from_u32 / to_u32          (src/src/procreate/mod.rs) *)
(*   - App::linearize_silica_layers             (src/src/app.rs)           *)
(*     and its copy in src/src/gui/app.rs                                  *)
(*   - ProcreateFile::from_ns and the layer and group loads it starts      *)
(*                       (src/src/procreate/mod.rs, src/src/procreate/ir.rs)*)
(*   - the tile grid of from_ns and TilingData::tile_size, in exact u32    *)
(*     arithmetic                               (src/src/procreate/mod.rs) *)
(*   - the tiles of ProcreateIRLayer::load: the entries' names, their      *)
(*     decoding and the uploads                  (src/src/procreate/ir.rs) *)
(* Each part has a specification of its own (SpecBlend, SpecFlat,          *)
(* SpecOpen, SpecGrid, SpecTiles) over one set of variables; the variables *)
(* of the parts a specification does not exercise keep their idle values.  *)
(* SpecCopies runs the two copies of the flattener on one tree.            *)
(***************************************************************************)
EXTENDS Integers, Sequences, FiniteSets, TLC

VARIABLES
    \* ---- BlendingMode conversions
    bm,               \* [pc, code, res, back]: one from_u32 / to_u32 round
    \* ---- linearize_silica_layers
    tree,             \* the SilicaGroup handed to linearize_silica_layers
    stack,            \* the activations of inner(): <<[group, i]>>, top last
    composite_layers, \* the Vec<CompositeLayer> being built
    mask_layer,       \* Option<(u32, &SilicaLayer)>
    fl_status,        \* "idle" | "running" | "done" | "panic"
    previous,         \* Option<Vec<CompositeLayer>>: what the call before returned
    gui_layers,       \* Option<..>: what the copy of gui/app.rs made of the tree
    \* ---- ProcreateFile::from_ns
    doc,              \* the decoded IR: the layer hierarchy and the composite
    phase,            \* where from_ns stands
    counter,          \* IRData.counter, the AtomicU32
    node,             \* per IR node: its load's position and results
    saved,            \* per collect (root and each group): the saved error
    fetched,          \* the values fetch_add handed out, in order
    result,           \* what open returned
    \* ---- the tile grid of from_ns and TilingData::tile_size
    size,             \* Size<u32>: the canvas, [width, height]
    tile_size,        \* u32: the root's tileSize
    overflow_checks,  \* the build: TRUE panics on overflow, FALSE wraps
    tile,             \* Option<TilingData>
    grid_status,      \* "idle" | "start" | "built" | "panic"
    wrapped,          \* an operation of the grid's arithmetic wrapped
    tile_rect,        \* Option<[col, row, size]>: the last tile_size(col, row)
    \* ---- the tiles of ProcreateIRLayer::load
    archive,          \* the zip archive: a set of entries [name, payload]
    loads,            \* per layer: [st, image, err] of its load
    ran,              \* the <<layer, name>> whose closure ran or was skipped
    uploads,          \* the calls of gpu_textures.replace, in order
    tile_counter,     \* IRData.counter
    tiles_panicked    \* a worker panicked

blendVars == <<bm>>
flatVars == <<tree, stack, composite_layers, mask_layer, fl_status, previous, gui_layers>>
openVars == <<doc, phase, counter, node, saved, fetched, result>>
gridVars == <<size, tile_size, overflow_checks, tile, grid_status, wrapped, tile_rect>>
tilesVars == <<archive, loads, ran, uploads, tile_counter, tiles_panicked>>
vars == <<bm, tree, stack, composite_layers, mask_layer, fl_status, previous, gui_layers,
          doc, phase, counter, node, saved, fetched, result,
          size, tile_size, overflow_checks, tile, grid_status, wrapped, tile_rect,
          archive, loads, ran, uploads, tile_counter, tiles_panicked>>

(***************************************************************************)
(* Option<T>: None is the empty sequence, Some(x) the one-element one.     *)
(***************************************************************************)
None == <<>>
Some(x) == <<x>>
IsSome(o) == o # <<>>

(***************************************************************************)
(* Result<T, E>                                                            *)
(***************************************************************************)
Ok(x) == [ok |-> TRUE, val |-> x]
Err(e) == [ok |-> FALSE, err |-> e]

(***************************************************************************)
(* BlendingMode                                                            *)
(***************************************************************************)
\* The enum's variants, in declaration order.
BlendingMode ==
    << "Normal", "Multiply", "Screen", "Add", "Lighten", "Exclusion",
       "Difference", "Subtract", "LinearBurn", "ColorDodge", "ColorBurn",
       "Overlay", "HardLight", "Color", "Luminosity", "Hue", "Saturation",
       "SoftLight", "Darken", "HardMix", "VividLight", "LinearLight",
       "PinLight", "LighterColor", "DarkerColor", "Divide" >>

Modes == {BlendingMode[i] : i \in 1..Len(BlendingMode)}

\* from_u32 with 18 accepted as the mode after SoftLight and the table not
\* shifted back: what a contiguous table would do.
from_u32_contiguous(blend) ==
    IF blend \in 0..25 THEN Ok(BlendingMode[blend + 1]) ELSE Err("InvalidValue")

\* BlendingMode::from_u32: the match of wire codes.
from_u32(blend) ==
    CASE blend = 0 -> Ok("Normal")
      [] blend = 1 -> Ok("Multiply")
      [] blend = 2 -> Ok("Screen")
      [] blend = 3 -> Ok("Add")
      [] blend = 4 -> Ok("Lighten")
      [] blend = 5 -> Ok("Exclusion")
      [] blend = 6 -> Ok("Difference")
      [] blend = 7 -> Ok("Subtract")
      [] blend = 8 -> Ok("LinearBurn")
      [] blend = 9 -> Ok("ColorDodge")
      [] blend = 10 -> Ok("ColorBurn")
      [] blend = 11 -> Ok("Overlay")
      [] blend = 12 -> Ok("HardLight")
      [] blend = 13 -> Ok("Color")
      [] blend = 14 -> Ok("Luminosity")
      [] blend = 15 -> Ok("Hue")
      [] blend = 16 -> Ok("Saturation")
      [] blend = 17 -> Ok("SoftLight")
      [] blend = 19 -> Ok("Darken")
      [] blend = 20 -> Ok("HardMix")
      [] blend = 21 -> Ok("VividLight")
      [] blend = 22 -> Ok("LinearLight")
      [] blend = 23 -> Ok("PinLight")
      [] blend = 24 -> Ok("LighterColor")
      [] blend = 25 -> Ok("DarkerColor")
      [] blend = 26 -> Ok("Divide")
      [] OTHER -> Err("InvalidValue")

\* BlendingMode::to_u32: `self as u32`, the discriminants of the enum.
to_u32(mode) ==
    CASE mode = "Normal" -> 0
      [] mode = "Multiply" -> 1
      [] mode = "Screen" -> 2
      [] mode = "Add" -> 3
      [] mode = "Lighten" -> 4
      [] mode = "Exclusion" -> 5
      [] mode = "Difference" -> 6
      [] mode = "Subtract" -> 7
      [] mode = "LinearBurn" -> 8
      [] mode = "ColorDodge" -> 9
      [] mode = "ColorBurn" -> 10
      [] mode = "Overlay" -> 11
      [] mode = "HardLight" -> 12
      [] mode = "Color" -> 13
      [] mode = "Luminosity" -> 14
      [] mode = "Hue" -> 15
      [] mode = "Saturation" -> 16
      [] mode = "SoftLight" -> 17
      [] mode = "Darken" -> 19
      [] mode = "HardMix" -> 20
      [] mode = "VividLight" -> 21
      [] mode = "LinearLight" -> 22
      [] mode = "PinLight" -> 23
      [] mode = "LighterColor" -> 24
      [] mode = "DarkerColor" -> 25
      [] mode = "Divide" -> 26

(***************************************************************************)
(* One round of the conversions: a wire code decoded and, when accepted,   *)
(* encoded again; or a mode encoded and decoded again.                     *)
(***************************************************************************)
MaxCode == 30

\* The u32 wire codes tried: the low codes and codes far from the table.
HighCodes == {255, 65535, 2147483647}
Codes == 0..MaxCode \cup HighCodes

BlendIdle == [pc |-> "idle", code |-> 0, mode |-> None, res |-> None, back |-> None]

BlendInit ==
    \/ \E c \in Codes : bm = [BlendIdle EXCEPT !.pc = "code", !.code = c]
    \/ \E m \in Modes : bm = [BlendIdle EXCEPT !.pc = "mode", !.mode = Some(m)]

\* from_u32(code)
Decode ==
    /\ bm.pc = "code"
    /\ bm' = [bm EXCEPT !.pc = "decoded", !.res = Some(from_u32(bm.code))]

\* from_u32(code)?.to_u32()
Encode ==
    /\ bm.pc = "decoded"
    /\ bm.res[1].ok
    /\ bm' = [bm EXCEPT !.pc = "encoded", !.back = Some(to_u32(bm.res[1].val))]

\* mode.to_u32()
EncodeMode ==
    /\ bm.pc = "mode"
    /\ bm' = [bm EXCEPT !.pc = "mcoded", !.code = to_u32(bm.mode[1])]

\* from_u32(mode.to_u32())
DecodeBack ==
    /\ bm.pc = "mcoded"
    /\ bm' = [bm EXCEPT !.pc = "mdone", !.res = Some(from_u32(bm.code))]

(***************************************************************************)
(* SilicaHierarchy, SilicaGroup, SilicaLayer.  Of a layer the model keeps  *)
(* the fields the flattener reads (blend, clipped, hidden, opacity,        *)
(* image); opacity is in percent.                                          *)
(***************************************************************************)
SilicaLayer(blend, clipped, hidden, opacity, image) ==
    [blend |-> blend, clipped |-> clipped, hidden |-> hidden,
     opacity |-> opacity, image |-> image]

SilicaGroup(hidden, children) == [hidden |-> hidden, children |-> children]

HLayer(l) == [tag |-> "Layer", layer |-> l]
HGroup(g) == [tag |-> "Group", group |-> g]

\* The number of layers under a sequence of children, at every depth.
RECURSIVE LayerCount(_)
LayerCount(children) ==
    IF children = <<>> THEN 0
    ELSE LET h == Head(children)
         IN (IF h.tag = "Layer" THEN 1 ELSE LayerCount(h.group.children))
            + LayerCount(Tail(children))

\* The layers under a sequence of children, at every depth.
RECURSIVE LayersOf(_)
LayersOf(children) ==
    IF children = <<>> THEN {}
    ELSE LET h == Head(children)
         IN (IF h.tag = "Layer" THEN {h.layer} ELSE LayersOf(h.group.children))
            \cup LayersOf(Tail(children))

(***************************************************************************)
(* The trees tried: every forest of at most MaxNodes layers and groups,    *)
(* every layer hidden or not and clipped or not.  As after a load, the     *)
(* layers hold distinct image slots; a layer's opacity and blend differ    *)
(* from layer to layer, so that a record tells which layer it is of.       *)
(***************************************************************************)
MaxNodes == 3

OpacityOf(image) == 100 - 10 * image
BlendOf(image) == from_u32(image % 18).val

\* A layer before its slot is assigned.
Unloaded(clipped, hidden) == SilicaLayer("Normal", clipped, hidden, 100, 0)

\* The forests of exactly n nodes, the layers not yet numbered.
ForestsOf[n \in 0..MaxNodes] ==
    IF n = 0 THEN {<<>>}
    ELSE LET NodesOf(k) ==
                 (IF k = 1
                  THEN { HLayer(Unloaded(c, h)) : c \in BOOLEAN, h \in BOOLEAN }
                  ELSE {})
                 \cup { HGroup(SilicaGroup(h, ch)) : h \in BOOLEAN, ch \in ForestsOf[k - 1] }
         IN UNION { { <<first>> \o rest : first \in NodesOf(k), rest \in ForestsOf[n - k] } :
                    k \in 1..n }

\* The layers numbered from `start` in the order of the IR (a load with no
\* composite and one worker), each with the opacity and blend of its number.
RECURSIVE Numbered(_, _)
Numbered(children, start) ==
    IF children = <<>> THEN <<>>
    ELSE LET h == Head(children)
         IN IF h.tag = "Layer"
            THEN << HLayer(SilicaLayer(BlendOf(start), h.layer.clipped, h.layer.hidden,
                                       OpacityOf(start), start)) >>
                 \o Numbered(Tail(children), start + 1)
            ELSE << HGroup(SilicaGroup(h.group.hidden, Numbered(h.group.children, start))) >>
                 \o Numbered(Tail(children), start + LayerCount(h.group.children))

\* The root group from_ns builds is never hidden.
Trees ==
    { SilicaGroup(FALSE, Numbered(ch, 0)) : ch \in UNION { ForestsOf[n] : n \in 0..MaxNodes } }

(***************************************************************************)
(* App::linearize_silica_layers.  inner() is a loop over the children of a *)
(* group in reverse with a recursive call per visible group: `stack` holds *)
(* one frame per activation, i being the index of the child the loop       *)
(* visits next (Len(children) down to 1; 0 when the loop has ended).       *)
(***************************************************************************)
\* if let Some((_, mask_layer)) = mask_layer { if layer.clipped && mask_layer.hidden { continue; } }
MaskedOut(layer, mask) ==
    /\ IsSome(mask)
    /\ layer.clipped
    /\ mask[1][2].hidden

\* The mask taken from every layer, clipped or not.
NewMaskAlways(layer, mask) == Some(<<layer.image, layer>>)

\* if !layer.clipped { *mask_layer = Some((layer.image, layer)); }
NewMask(layer, mask) ==
    IF ~layer.clipped THEN Some(<<layer.image, layer>>) ELSE mask

\* mask_layer.unwrap() of `layer.clipped.then(|| mask_layer.unwrap().0)` panics on None.
UnwrapPanics(layer, mask) == layer.clipped /\ mask = None

\* A record clipped to the layer's own slot.
CompositeLayerSelfClip(layer, mask) ==
    [texture |-> layer.image,
     clipped |-> IF layer.clipped THEN Some(layer.image) ELSE None,
     opacity |-> layer.opacity,
     blend |-> layer.blend]

\* CompositeLayer { texture, clipped, opacity, blend }
CompositeLayer(layer, mask) ==
    [texture |-> layer.image,
     clipped |-> IF layer.clipped THEN Some(mask[1][1]) ELSE None,
     opacity |-> layer.opacity,
     blend |-> layer.blend]

FlatIdle ==
    /\ tree = SilicaGroup(FALSE, <<>>)
    /\ stack = <<>>
    /\ composite_layers = <<>>
    /\ mask_layer = None
    /\ fl_status = "idle"
    /\ previous = None
    /\ gui_layers = None

FlatInit ==
    /\ tree \in Trees
    /\ stack = <<>>
    /\ composite_layers = <<>>
    /\ mask_layer = None
    /\ fl_status = "idle"
    /\ previous = None
    /\ gui_layers = None

Top == stack[Len(stack)]
\* The child a loop without .rev() would visit.
ChildForward == Top.group.children[Len(Top.group.children) + 1 - Top.i]
\* for layer in layers.children.iter().rev(): the child the loop is at.
Child == Top.group.children[Top.i]
\* The loop of the top activation moves on to its next child.
Advance == [stack EXCEPT ![Len(stack)].i = @ - 1]

\* A call that goes on with the Vec of the call before.
LinearizeAppending ==
    /\ fl_status = "idle" \/ (fl_status = "done" /\ previous = None)
    /\ previous' = IF fl_status = "done" THEN Some(composite_layers) ELSE None
    /\ fl_status' = "running"
    /\ composite_layers' = composite_layers
    /\ mask_layer' = None
    /\ stack' = << [group |-> tree, i |-> Len(tree.children)] >>
    /\ UNCHANGED <<tree, gui_layers>>

\* let mut composite_layers = Vec::new(); inner(layers, &mut composite_layers, &mut None);
\* The first call, or the next one on the same tree after a call returned
\* (app.rs 74 calls once per frame).
Linearize ==
    /\ fl_status = "idle" \/ (fl_status = "done" /\ previous = None)
    /\ previous' = IF fl_status = "done" THEN Some(composite_layers) ELSE None
    /\ fl_status' = "running"
    /\ composite_layers' = <<>>
    /\ mask_layer' = None
    /\ stack' = << [group |-> tree, i |-> Len(tree.children)] >>
    /\ UNCHANGED <<tree, gui_layers>>

\* SilicaHierarchy::Group(group) if !group.hidden => inner(group, ...)
EnterGroup ==
    /\ fl_status = "running"
    /\ Top.i > 0
    /\ Child.tag = "Group"
    /\ ~Child.group.hidden
    /\ stack' = Append(Advance, [group |-> Child.group, i |-> Len(Child.group.children)])
    /\ UNCHANGED <<tree, previous, gui_layers, composite_layers, mask_layer, fl_status>>

\* SilicaHierarchy::Layer(layer) if !layer.hidden => { ... }
VisitLayer ==
    /\ fl_status = "running"
    /\ Top.i > 0
    /\ Child.tag = "Layer"
    /\ ~Child.layer.hidden
    /\ LET layer == Child.layer
           mask == NewMask(layer, mask_layer)
       IN IF MaskedOut(layer, mask_layer)
          THEN /\ stack' = Advance
               /\ UNCHANGED <<composite_layers, mask_layer, fl_status>>
          ELSE IF UnwrapPanics(layer, mask)
          THEN /\ fl_status' = "panic"
               /\ mask_layer' = mask
               /\ UNCHANGED <<stack, composite_layers>>
          ELSE /\ mask_layer' = mask
               /\ composite_layers' = Append(composite_layers, CompositeLayer(layer, mask))
               /\ stack' = Advance
               /\ UNCHANGED fl_status
    /\ UNCHANGED <<tree, previous, gui_layers>>

\* _ => continue: a hidden group or a hidden layer
SkipHidden ==
    /\ fl_status = "running"
    /\ Top.i > 0
    /\ \/ Child.tag = "Group" /\ Child.group.hidden
       \/ Child.tag = "Layer" /\ Child.layer.hidden
    /\ stack' = Advance
    /\ UNCHANGED <<tree, previous, gui_layers, composite_layers, mask_layer, fl_status>>

\* A return that leaves the caller without the mask the callee set.
ReturnDroppingMask ==
    /\ fl_status = "running"
    /\ Top.i = 0
    /\ stack' = SubSeq(stack, 1, Len(stack) - 1)
    /\ fl_status' = IF Len(stack) = 1 THEN "done" ELSE "running"
    /\ mask_layer' = None
    /\ UNCHANGED <<tree, previous, gui_layers, composite_layers>>

\* The loop of an activation ends: inner() returns, the outermost one to
\* linearize_silica_layers, which returns composite_layers.
Return ==
    /\ fl_status = "running"
    /\ Top.i = 0
    /\ stack' = SubSeq(stack, 1, Len(stack) - 1)
    /\ fl_status' = IF Len(stack) = 1 THEN "done" ELSE "running"
    /\ UNCHANGED <<tree, previous, gui_layers, composite_layers, mask_layer>>

(***************************************************************************)
(* The copy of the flattener in gui/app.rs, on the SilicaGroup of          *)
(* crate::silica: of it the copy reads the fields children, hidden,        *)
(* clipped, image, opacity and blend.  The function is computed as a       *)
(* whole: gui_inner is inner() of gui/app.rs, the loop from child i down   *)
(* to 1 of `children`, with the Vec and the mask as it found them; it      *)
(* answers the Vec and the mask as it leaves them, or the panic.           *)
(***************************************************************************)
\* A record that is never clipped.
GuiCompositeLayerUnclipped(layer, mask) ==
    [texture |-> layer.image,
     clipped |-> None,
     opacity |-> layer.opacity,
     blend |-> layer.blend]

\* CompositeLayer { texture, clipped, opacity, blend } of gui/app.rs.
GuiCompositeLayer(layer, mask) ==
    [texture |-> layer.image,
     clipped |-> IF layer.clipped THEN Some(mask[1][1]) ELSE None,
     opacity |-> layer.opacity,
     blend |-> layer.blend]

RECURSIVE gui_inner(_, _, _, _)
gui_inner(children, i, out, mask) ==
    IF i = 0 THEN [panic |-> FALSE, out |-> out, mask |-> mask]
    ELSE LET c == children[i]
         IN IF c.tag = "Group" /\ ~c.group.hidden
            THEN LET r == gui_inner(c.group.children, Len(c.group.children), out, mask)
                 IN IF r.panic THEN r ELSE gui_inner(children, i - 1, r.out, r.mask)
            ELSE IF c.tag = "Layer" /\ ~c.layer.hidden
            THEN LET layer == c.layer
                     m == IF ~layer.clipped THEN Some(<<layer.image, layer>>) ELSE mask
                 IN IF mask # None /\ layer.clipped /\ mask[1][2].hidden
                    THEN gui_inner(children, i - 1, out, mask)
                    ELSE IF layer.clipped /\ m = None
                    THEN [panic |-> TRUE, out |-> out, mask |-> m]
                    ELSE gui_inner(children, i - 1,
                                   Append(out, GuiCompositeLayer(layer, m)), m)
            ELSE gui_inner(children, i - 1, out, mask)

\* let mut composite_layers = Vec::new(); inner(layers, &mut composite_layers, &mut None);
\* composite_layers
gui_linearize_silica_layers(layers) ==
    LET r == gui_inner(layers.children, Len(layers.children), <<>>, None)
    IN [panic |-> r.panic, out |-> r.out]

\* A call of the copy of gui/app.rs on the tree (main.rs 39).
GuiLinearize ==
    /\ gui_layers = None
    /\ gui_layers' = Some(gui_linearize_silica_layers(tree))
    /\ UNCHANGED <<tree, stack, composite_layers, mask_layer, fl_status, previous>>

(***************************************************************************)
(* ProcreateFile::from_ns and the loads it starts.                         *)
(*                                                                         *)
(* The IR hierarchy is a table of nodes in pre-order: ir[i].parent is the  *)
(* group node i is a child of, 0 for a child of `unwrappedLayers` itself;  *)
(* the children of a group are its nodes in index order.  A layer's coder  *)
(* holds the keys its blend is read from; the other keys of the archive    *)
(* are present or not as each fetch finds them.  node[0] is the load of    *)
(* the composite layer, node[i] that of ir[i]; saved[0] is the saved error *)
(* of from_ns's own collect, saved[g] that of group g's.                   *)
(***************************************************************************)
MaxIR == 2

\* The (extendedBlend, blend) pairs a layer's dictionary holds.
BlendSources ==
    { [ext |-> None, blend |-> 21],
      [ext |-> Some(1), blend |-> 18],
      [ext |-> Some(18), blend |-> 0] }

GroupCoder == [ext |-> None, blend |-> 0]

RECURSIVE AncOrSelf(_, _)
AncOrSelf(ir, i) == IF i = 0 THEN {0} ELSE {i} \cup AncOrSelf(ir, ir[i].parent)

\* Where the node after the last one of `ir` may hang, the table staying in pre-order.
Hooks(ir) ==
    {p \in AncOrSelf(ir, Len(ir)) : p = 0 \/ ir[p].kind = "Group"}

RECURSIVE IRs(_)
\* The hierarchies of exactly n nodes.
IRs(n) ==
    IF n = 0 THEN {<<>>}
    ELSE UNION {
           { Append(ir, [kind |-> "Layer", parent |-> p, coder |-> c]) :
               p \in Hooks(ir), c \in BlendSources }
           \cup { Append(ir, [kind |-> "Group", parent |-> p, coder |-> GroupCoder]) :
                    p \in Hooks(ir) } :
           ir \in IRs(n - 1) }

Docs == { [ir |-> ir, composite |-> c] :
            ir \in UNION { IRs(n) : n \in 0..MaxIR }, c \in BlendSources }

N == Len(doc.ir)
Composite == 0
Root == 0
IsLayerNode(i) == IF i = Composite THEN TRUE ELSE doc.ir[i].kind = "Layer"
LayerNodes == {i \in 1..N : doc.ir[i].kind = "Layer"}
GroupNodes == {i \in 1..N : doc.ir[i].kind = "Group"}
ChildrenOf(g) == {i \in 1..N : doc.ir[i].parent = g}
CoderOf(i) == IF i = Composite THEN doc.composite ELSE doc.ir[i].coder

NodeIdle == [st |-> "idle", image |-> None, blend |-> None, err |-> None]

OpenIdle ==
    /\ doc = [ir |-> <<>>, composite |-> GroupCoder]
    /\ phase = "idle"
    /\ counter = 0
    /\ node = <<>>
    /\ saved = <<>>
    /\ fetched = <<>>
    /\ result = None

OpenInit ==
    /\ doc \in Docs
    /\ phase = "start"
    /\ counter = 0
    /\ node = [i \in 0..N |-> NodeIdle]
    /\ saved = [g \in 0..N |-> None]
    /\ fetched = <<>>
    /\ result = None

\* A fetch_add that hands out the value and leaves the counter as it was.
fetch_add_lost(c) == [ret |-> c, new |-> c]

\* AtomicU32::fetch_add(1, SeqCst): the old value, and the counter after it.
\* (The counter stays below the layer count + 1, far from 2^32.)
fetch_add(c) == [ret |-> c, new |-> c + 1]

\* The blend code read with no regard to extendedBlend.
EffectiveBlendNoExt(coder) == coder.blend

\* nka.fetch::<Option<u32>>(coder, "extendedBlend").transpose()
\*     .unwrap_or_else(|| nka.fetch::<u32>(coder, "blend"))?
EffectiveBlend(coder) == IF IsSome(coder.ext) THEN coder.ext[1] ELSE coder.blend

\* The tree's loads free to run while the composite's has not ended.
MayRunUnordered(i) ==
    IF i = Composite THEN phase = "composite"
    ELSE /\ phase \in {"composite", "layers"}
         /\ IF doc.ir[i].parent = Root THEN TRUE ELSE node[doc.ir[i].parent].st = "open"

\* An item of a parallel iterator may run when the iterator has been
\* started: the composite in from_ns's own turn, a child of the root once
\* from_ns collects, a child of a group once the group's load collects.
MayRun(i) ==
    IF i = Composite THEN phase = "composite"
    ELSE /\ phase = "layers"
         /\ IF doc.ir[i].parent = Root THEN TRUE ELSE node[doc.ir[i].parent].st = "open"

\* A collect that drops the errors of its items.
KeepNothing(e, slot) == slot

\* collect::<Result<_, _>>(): the first error to arrive is the one kept.
Keep(e, slot) == IF slot = None THEN Some(e) ELSE slot

\* A load ends in Err(e): the composite's error is dropped by .ok(), an
\* item's goes to the collect of the iterator it is an item of.
Failed(i, e) ==
    /\ node' = [node EXCEPT ![i].st = "err", ![i].err = Some(e)]
    /\ IF i = Composite
       THEN phase' = "layers" /\ UNCHANGED saved
       ELSE /\ saved' = [saved EXCEPT ![doc.ir[i].parent] = Keep(e, @)]
            /\ UNCHANGED phase

\* from_ns up to the composite's load: the fetches of the root's keys, each
\* `?`, the last of them nka.fetch::<ProcreateIRLayer>(root, "composite")?,
\* whose decode (ir.rs 36-47) fails on a value that is not a dictionary.
OpenStart ==
    /\ phase = "start"
    /\ \E o \in {"ok", "root", "composite"} :
          CASE o = "ok" -> phase' = "composite" /\ UNCHANGED <<result, node>>
            [] o = "root" -> /\ phase' = "returned"
                             /\ result' = Some(Err("NsArchiveError"))
                             /\ UNCHANGED node
            [] OTHER -> /\ phase' = "returned"
                        /\ result' = Some(Err("NsArchiveError"))
                        /\ node' = [node EXCEPT ![Composite].st = "err",
                                                ![Composite].err = Some("NsArchiveError")]
    /\ UNCHANGED <<doc, counter, saved, fetched>>

\* A load that reads and validates the blend before it takes its slot.
LayerBeginValidating(i) ==
    /\ IsLayerNode(i)
    /\ node[i].st = "idle"
    /\ MayRun(i)
    /\ \E uuid_ok \in BOOLEAN :
          IF ~uuid_ok
          THEN /\ Failed(i, "NsArchiveError")
               /\ UNCHANGED <<counter, fetched>>
          ELSE IF ~from_u32(EffectiveBlend(CoderOf(i))).ok
          THEN /\ Failed(i, "InvalidValue")
               /\ UNCHANGED <<counter, fetched>>
          ELSE /\ node' = [node EXCEPT ![i].st = "tiles",
                                       ![i].image = Some(fetch_add(counter).ret)]
               /\ counter' = fetch_add(counter).new
               /\ fetched' = Append(fetched, fetch_add(counter).ret)
               /\ UNCHANGED <<phase, saved>>
    /\ UNCHANGED <<doc, result>>

\* ProcreateIRLayer::load up to the counter: the UUID, then fetch_add.
LayerBegin(i) ==
    /\ IsLayerNode(i)
    /\ node[i].st = "idle"
    /\ MayRun(i)
    /\ \E uuid_ok \in BOOLEAN :
          IF uuid_ok
          THEN /\ node' = [node EXCEPT ![i].st = "tiles",
                                       ![i].image = Some(fetch_add(counter).ret)]
               /\ counter' = fetch_add(counter).new
               /\ fetched' = Append(fetched, fetch_add(counter).ret)
               /\ UNCHANGED <<phase, saved>>
          ELSE /\ Failed(i, "NsArchiveError")
               /\ UNCHANGED <<counter, fetched>>
    /\ UNCHANGED <<doc, result>>

\* The errors a tile's closure returns with `?`: of the errors of a read and
\* of a decompression, which take the same path, the model tries one.
TileErrors == {"LzoError"}

\* ProcreateIRLayer::load, the tiles: all decoded and uploaded, or the error
\* of one, or a panic (an unwrap, the expect).
LoadTiles(i) ==
    /\ IsLayerNode(i)
    /\ node[i].st = "tiles"
    /\ phase \in {"composite", "layers"}
    /\ \E o \in {"ok", "panic"} \cup TileErrors :
          CASE o = "ok" -> /\ node' = [node EXCEPT ![i].st = "scalars"]
                           /\ UNCHANGED <<phase, saved>>
            [] o = "panic" -> /\ phase' = "panicked"
                              /\ UNCHANGED <<node, saved>>
            [] OTHER -> Failed(i, o)
    /\ UNCHANGED <<doc, counter, fetched, result>>

\* ProcreateIRLayer::load, the SilicaLayer: the blend first, then the
\* other keys.
DecodeScalars(i) ==
    /\ IsLayerNode(i)
    /\ node[i].st = "scalars"
    /\ phase \in {"composite", "layers"}
    /\ LET blend == from_u32(EffectiveBlend(CoderOf(i)))
       IN IF ~blend.ok THEN Failed(i, blend.err)
          ELSE \E rest_ok \in BOOLEAN :
                 IF rest_ok
                 THEN /\ node' = [node EXCEPT ![i].st = "ok", ![i].blend = Some(blend.val)]
                      /\ phase' = IF i = Composite THEN "layers" ELSE phase
                      /\ UNCHANGED saved
                 ELSE Failed(i, "NsArchiveError")
    /\ UNCHANGED <<doc, counter, fetched, result>>

\* ProcreateIRGroup::load up to the children: isHidden and name.
GroupBegin(g) ==
    /\ g \in GroupNodes
    /\ node[g].st = "idle"
    /\ MayRun(g)
    /\ \E ok \in BOOLEAN :
          IF ok THEN node' = [node EXCEPT ![g].st = "open"] /\ UNCHANGED <<phase, saved>>
          ELSE Failed(g, "NsArchiveError")
    /\ UNCHANGED <<doc, counter, fetched, result>>

Finished(i) == node[i].st \in {"ok", "err", "skipped"}

\* An item the iterator never runs, its collect holding an error already.
Skip(i) ==
    /\ i \in 1..N
    /\ node[i].st = "idle"
    /\ MayRun(i)
    /\ saved[doc.ir[i].parent] # None
    /\ node' = [node EXCEPT ![i].st = "skipped"]
    /\ UNCHANGED <<doc, phase, counter, saved, fetched, result>>

\* ProcreateIRGroup::load, the collect of the children done.
GroupEnd(g) ==
    /\ g \in GroupNodes
    /\ node[g].st = "open"
    /\ phase = "layers"
    /\ \A c \in ChildrenOf(g) : Finished(c)
    /\ IF saved[g] = None
       THEN node' = [node EXCEPT ![g].st = "ok"] /\ UNCHANGED <<phase, saved>>
       ELSE Failed(g, saved[g][1])
    /\ UNCHANGED <<doc, counter, fetched, result>>

\* A collect that yields its items last first.
RECURSIVE LoadedReversed(_, _)
LoadedReversed(g, i) ==
    IF i > N THEN <<>>
    ELSE LoadedReversed(g, i + 1)
         \o (IF doc.ir[i].parent # g THEN <<>>
             ELSE IF doc.ir[i].kind = "Layer"
             THEN << HLayer(SilicaLayer(node[i].blend[1], FALSE, FALSE, 100, node[i].image[1])) >>
             ELSE << HGroup(SilicaGroup(FALSE, LoadedReversed(i, i + 1))) >>)

\* The SilicaHierarchy values the loads returned, in the order of the IR.
RECURSIVE Loaded(_, _)
Loaded(g, i) ==
    IF i > N THEN <<>>
    ELSE (IF doc.ir[i].parent # g THEN <<>>
          ELSE IF doc.ir[i].kind = "Layer"
          THEN << HLayer(SilicaLayer(node[i].blend[1], FALSE, FALSE, 100, node[i].image[1])) >>
          ELSE << HGroup(SilicaGroup(FALSE, Loaded(i, i + 1))) >>)
         \o Loaded(g, i + 1)

\* A collect that returns the first error with the other items still running.
OpenReturnEarly ==
    /\ phase = "layers"
    /\ (\A c \in ChildrenOf(Root) : Finished(c)) \/ saved[Root] # None
    /\ phase' = "returned"
    /\ result' =
         IF saved[Root] # None THEN Some(Err(saved[Root][1]))
         ELSE Some(Ok([composite |->
                          IF node[Composite].st = "ok"
                          THEN Some(SilicaLayer(node[Composite].blend[1], FALSE, FALSE, 100,
                                                node[Composite].image[1]))
                          ELSE None,
                       layers |-> SilicaGroup(FALSE, Loaded(Root, 1))]))
    /\ UNCHANGED <<doc, counter, node, saved, fetched>>

\* from_ns, the collect of the root's children done: Ok((Self { .. }, gpu_textures)) or the error.
OpenReturn ==
    /\ phase = "layers"
    /\ \A c \in ChildrenOf(Root) : Finished(c)
    /\ phase' = "returned"
    /\ result' =
         IF saved[Root] # None THEN Some(Err(saved[Root][1]))
         ELSE Some(Ok([composite |->
                          IF node[Composite].st = "ok"
                          THEN Some(SilicaLayer(node[Composite].blend[1], FALSE, FALSE, 100,
                                                node[Composite].image[1]))
                          ELSE None,
                       layers |-> SilicaGroup(FALSE, Loaded(Root, 1))]))
    /\ UNCHANGED <<doc, counter, node, saved, fetched>>

(***************************************************************************)
(* u32.  TLC's integers end below 2^32, so a u32 is kept as two 16-bit     *)
(* halves, [hi, lo] for hi * 2^16 + lo.  An operation returns the wrapped  *)
(* value and whether it overflowed: Rust panics on the overflow when the   *)
(* build has overflow checks (debug) and keeps the wrapped value when it   *)
(* has none (release).                                                     *)
(***************************************************************************)
Half == 2^16
U32(hi, lo) == [hi |-> hi, lo |-> lo]
Zero == U32(0, 0)
One == U32(0, 1)
U32Max == U32(Half - 1, Half - 1)
\* The u32 of a number below 2^31, and back.
ToU32(n) == U32(n \div Half, n % Half)
ToNat(a) == a.hi * Half + a.lo
Lt(a, b) == a.hi < b.hi \/ (a.hi = b.hi /\ a.lo < b.lo)
Le(a, b) == a = b \/ Lt(a, b)

\* a + b
add(a, b) ==
    LET s0 == a.lo + b.lo
        s1 == a.hi + b.hi + (s0 \div Half)
    IN [val |-> U32(s1 % Half, s0 % Half), of |-> s1 >= Half]

\* a - b
sub(a, b) ==
    LET d0 == a.lo - b.lo
        d1 == a.hi - b.hi - (IF d0 < 0 THEN 1 ELSE 0)
    IN [val |-> U32((d1 + Half) % Half, (d0 + Half) % Half), of |-> d1 < 0]

\* The four bytes of a, the lowest first.
Bytes(a) == << a.lo % 256, a.lo \div 256, a.hi % 256, a.hi \div 256 >>

\* a * b, by the schoolbook product of the bytes: column k sums the products
\* a[i] * b[j] with i + j = k and the carry of column k - 1; the low four
\* columns are the wrapped product, and it overflowed when anything is left
\* above them.
mul(a, b) ==
    LET x == Bytes(a)
        y == Bytes(b)
        t1 == x[1] * y[1]
        t2 == x[1] * y[2] + x[2] * y[1] + (t1 \div 256)
        t3 == x[1] * y[3] + x[2] * y[2] + x[3] * y[1] + (t2 \div 256)
        t4 == x[1] * y[4] + x[2] * y[3] + x[3] * y[2] + x[4] * y[1] + (t3 \div 256)
        above == x[2] * y[4] + x[3] * y[3] + x[4] * y[2]
                 + x[3] * y[4] + x[4] * y[3] + x[4] * y[4] + (t4 \div 256)
    IN [val |-> U32((t4 % 256) * 256 + (t3 % 256), (t2 % 256) * 256 + (t1 % 256)),
        of |-> above > 0]

\* One step of the long division by b in base 256: the remainder so far
\* (below b) takes the next byte of the dividend, and the quotient's next
\* byte is the d with d * b <= r * 256 + byte < (d + 1) * b.  The high half
\* of a number may pass 2^16 here.
DivStep(r, byte, b) ==
    LET lo2 == r.lo * 256 + byte
        r2 == [hi |-> r.hi * 256 + (lo2 \div Half), lo |-> lo2 % Half]
        Times(d) == [hi |-> d * b.hi + ((d * b.lo) \div Half), lo |-> (d * b.lo) % Half]
        d == CHOOSE k \in 0..255 : Le(Times(k), r2) /\ Lt(r2, Times(k + 1))
        d0 == r2.lo - Times(d).lo
    IN [d |-> d,
        r |-> U32(r2.hi - Times(d).hi - (IF d0 < 0 THEN 1 ELSE 0), (d0 + Half) % Half)]

\* a / b and a % b, for b # 0.
divmod(a, b) ==
    LET x == Bytes(a)
        s4 == DivStep(Zero, x[4], b)
        s3 == DivStep(s4.r, x[3], b)
        s2 == DivStep(s3.r, x[2], b)
        s1 == DivStep(s2.r, x[1], b)
    IN [q |-> U32(s4.d * 256 + s3.d, s2.d * 256 + s1.d), r |-> s1.r]

(***************************************************************************)
(* The tile grid: from_ns (mod.rs 283-296) and TilingData::tile_size.      *)
(***************************************************************************)
MaxDim == 3

\* The widths, heights and tile sizes tried: the small ones, those of the
\* spec's examples, and the ones next to 2^32.
Dims ==
    { ToU32(n) : n \in (0..MaxDim) \cup {64, 70, 100} }
    \cup { U32Max, sub(U32Max, ToU32(63)).val }

\* The columns and rows asked of tile_size.
Coords == { ToU32(n) : n \in 0..MaxDim } \cup { U32Max }

GridIdle ==
    /\ size = [width |-> Zero, height |-> Zero]
    /\ tile_size = Zero
    /\ overflow_checks = FALSE
    /\ tile = None
    /\ grid_status = "idle"
    /\ wrapped = FALSE
    /\ tile_rect = None

GridInit ==
    /\ size \in [width : Dims, height : Dims]
    /\ tile_size \in Dims
    /\ overflow_checks \in BOOLEAN
    /\ tile = None
    /\ grid_status = "start"
    /\ wrapped = FALSE
    /\ tile_rect = None

\* (extent + tile_size - 1) / tile_size, then columns * tile_size - extent:
\* [count, diff, of, panic], of for an operation that overflowed, panic for
\* the division by zero.
Axis(extent, ts) ==
    LET s == add(extent, ts)
        n == sub(s.val, One)
    IN IF ts = Zero THEN [count |-> Zero, diff |-> Zero, of |-> s.of \/ n.of, panic |-> TRUE]
       ELSE LET count == divmod(n.val, ts).q
                p == mul(count, ts)
                d == sub(p.val, extent)
            IN [count |-> count, diff |-> d.val,
                of |-> s.of \/ n.of \/ p.of \/ d.of, panic |-> FALSE]

\* from_ns: columns, rows and the TilingData.
BuildGrid ==
    /\ grid_status = "start"
    /\ LET c == Axis(size.width, tile_size)
           r == Axis(size.height, tile_size)
       IN IF c.panic \/ r.panic \/ (overflow_checks /\ (c.of \/ r.of))
          THEN grid_status' = "panic" /\ UNCHANGED <<tile, wrapped>>
          ELSE /\ grid_status' = "built"
               /\ wrapped' = (c.of \/ r.of)
               /\ tile' = Some([columns |-> c.count, rows |-> r.count,
                                diff |-> [width |-> c.diff, height |-> r.diff],
                                size |-> tile_size])
    /\ UNCHANGED <<size, tile_size, overflow_checks, tile_rect>>

\* One side of TilingData::tile_size: [val, of].
Side(self_count, self_size, self_diff, index) ==
    LET last == sub(self_count, One)
        cut == sub(self_size, self_diff)
    IN IF index # last.val
       THEN [val |-> self_size, of |-> last.of]
       ELSE [val |-> cut.val, of |-> last.of \/ cut.of]

\* TilingData::tile_size(col, row): [width, height, of].
TileSizeOf(self, col, row) ==
    LET w == Side(self.columns, self.size, self.diff.width, col)
        h == Side(self.rows, self.size, self.diff.height, row)
    IN [width |-> w.val, height |-> h.val, of |-> w.of \/ h.of]

\* A call of tile_size on the TilingData from_ns built.
TileSize ==
    /\ grid_status = "built"
    /\ tile_rect = None
    /\ \E col \in Coords, row \in Coords :
          LET t == TileSizeOf(tile[1], col, row)
          IN IF overflow_checks /\ t.of
             THEN grid_status' = "panic" /\ UNCHANGED <<tile_rect, wrapped>>
             ELSE /\ tile_rect' = Some([col |-> col, row |-> row,
                                        size |-> [width |-> t.width, height |-> t.height]])
                  /\ wrapped' = (wrapped \/ t.of)
                  /\ UNCHANGED grid_status
    /\ UNCHANGED <<size, tile_size, overflow_checks, tile>>

(***************************************************************************)
(* The tiles of ProcreateIRLayer::load (ir.rs 65-108).  A name is the      *)
(* sequence of its characters.  An entry's payload says what its bytes     *)
(* decompress to: "exact" for w * h * 4 bytes of the tile the name gives,  *)
(* "short" for fewer, "corrupt" for bytes the decoder rejects.             *)
(***************************************************************************)
MaxEntries == 2

Digits == <<"0", "1", "2", "3", "4", "5", "6", "7", "8", "9">>
IsDigit(c) == \E i \in 1..10 : Digits[i] = c
DigitVal(c) == (CHOOSE i \in 1..10 : Digits[i] = c) - 1

\* str::parse::<u32>() of a run of digits: the value, or of for PosOverflow.
\* The last ten digits are read five and five, the digits before them
\* must be zeros.
parse_u32(ds) ==
    LET n == Len(ds)
        D(i) == IF n - 10 + i >= 1 THEN DigitVal(ds[n - 10 + i]) ELSE 0
        hi5 == D(1) * 10000 + D(2) * 1000 + D(3) * 100 + D(4) * 10 + D(5)
        lo5 == D(6) * 10000 + D(7) * 1000 + D(8) * 100 + D(9) * 10 + D(10)
        m == mul(ToU32(hi5), ToU32(100000))
        a == add(m.val, ToU32(lo5))
    IN [val |-> a.val,
        of |-> m.of \/ a.of \/ \E i \in 1..(n - 10) : ds[i] # "0"]

\* path.starts_with(&uuid)
starts_with(path, uuid) ==
    Len(uuid) <= Len(path) /\ SubSeq(path, 1, Len(uuid)) = uuid

\* path.ends_with(".lz4")
ends_with_lz4(path) ==
    Len(path) >= 4 /\ SubSeq(path, Len(path) - 3, Len(path)) = <<".", "l", "z", "4">>

\* path.find('.').unwrap_or(path.len()), as the number of characters before it.
find_dot(path) ==
    IF \E i \in 1..Len(path) : path[i] = "."
    THEN (CHOOSE i \in 1..Len(path) : path[i] = "." /\ \A j \in 1..(i - 1) : path[j] # ".") - 1
    ELSE Len(path)

\* Where the run of digits that holds position i ends (the position after it).
RunEnd(s, i) ==
    CHOOSE j \in i..(Len(s) + 1) :
        /\ \A k \in i..(j - 1) : IsDigit(s[k])
        /\ j = Len(s) + 1 \/ ~IsDigit(s[j])

\* Regex "(\d+)~(\d+)".captures(s): the leftmost match, each group greedy;
\* None when nothing matches.
captures(s) ==
    LET Starts == { i \in 1..Len(s) :
                      /\ IsDigit(s[i])
                      /\ LET e == RunEnd(s, i)
                         IN e + 1 <= Len(s) /\ s[e] = "~" /\ IsDigit(s[e + 1]) }
    IN IF Starts = {} THEN None
       ELSE LET i == CHOOSE x \in Starts : \A y \in Starts : x <= y
                e == RunEnd(s, i)
            IN Some(<< SubSeq(s, i, e - 1), SubSeq(s, e + 1, RunEnd(s, e + 1) - 1) >>)

Chunk == <<".", "c", "h", "u", "n", "k">>
Lz4 == <<".", "l", "z", "4">>

\* The layers loading, by their UUIDs.
UUIDs == << <<"A">>, <<"B">> >>
Layers == 1..Len(UUIDs)

\* The names an archive's entries may have.
Names ==
    { <<"A", "/", "0", "~", "0">> \o Chunk,
      <<"A", "/", "1", "~", "1">> \o Chunk,
      <<"A", "/", "1", "~", "0">> \o Lz4,
      <<"A", "/", "0", "~", "0">> \o Lz4,
      <<"A", "/", "0", "0", "~", "0">> \o Chunk,
      <<"A", "/", "2", "~", "0">> \o Chunk,
      <<"A", "/", "x">> \o Chunk,
      <<"A", "/", "4", "2", "9", "4", "9", "6", "7", "2", "9", "6", "~", "0">> \o Chunk,
      <<"A", "/", "6", "7", "1", "0", "8", "8", "6", "4", "~", "0">> \o Chunk,
      <<"B", "/", "0", "~", "0">> \o Chunk }

Payloads == {"exact", "short", "corrupt"}

\* The archives of at most n entries, no two of one name.
RECURSIVE Archives(_)
Archives(n) ==
    IF n = 0 THEN {{}}
    ELSE Archives(n - 1)
         \cup { a \cup {[name |-> nm, payload |-> pl]} :
                  a \in Archives(n - 1),
                  nm \in Names, pl \in Payloads }

WellNamed(a) == \A e1 \in a, e2 \in a : e1.name = e2.name => e1 = e2

LoadIdle == [st |-> "idle", image |-> None, err |-> None]

TilesIdle ==
    /\ archive = {}
    /\ loads = <<>>
    /\ ran = {}
    /\ uploads = <<>>
    /\ tile_counter = 0
    /\ tiles_panicked = FALSE

\* The canvas of the spec's example: 100 x 70 with tiles of 64.
TilesInit ==
    /\ size = [width |-> ToU32(100), height |-> ToU32(70)]
    /\ tile_size = ToU32(64)
    /\ overflow_checks \in BOOLEAN
    /\ tile = None
    /\ grid_status = "start"
    /\ wrapped = FALSE
    /\ tile_rect = None
    /\ archive \in { a \in Archives(MaxEntries) : WellNamed(a) }
    /\ loads = [l \in Layers |-> LoadIdle]
    /\ ran = {}
    /\ uploads = <<>>
    /\ tile_counter = 0
    /\ tiles_panicked = FALSE

\* ProcreateIRLayer::load up to the tiles: the UUID, then fetch_add.
LayerStart(l) ==
    /\ grid_status = "built"
    /\ loads[l].st = "idle"
    /\ \E uuid_ok \in BOOLEAN :
          IF uuid_ok
          THEN /\ loads' = [loads EXCEPT ![l].st = "tiles",
                                         ![l].image = Some(fetch_add(tile_counter).ret)]
               /\ tile_counter' = fetch_add(tile_counter).new
          ELSE /\ loads' = [loads EXCEPT ![l].st = "err", ![l].err = Some("NsArchiveError")]
               /\ UNCHANGED tile_counter
    /\ UNCHANGED <<archive, ran, uploads, tiles_panicked>>

\* .filter(|path| path.starts_with(&uuid))
Matching(l) == { e \in archive : starts_with(e.name, UUIDs[l]) }

Panic == [kind |-> "panic"]
Fails(e) == [kind |-> "err", err |-> e]
Uploads(x, y, t, image, len, path) ==
    [kind |-> "ok",
     upload |-> [origin |-> <<x, y>>, size |-> <<t.width, t.height>>,
                 image |-> image, len |-> len, name |-> path]]

\* What the decoder makes of the entry's bytes: Ok(the length) or the error.
\* The frame decoder of .lz4 returns what the frame holds, of any length;
\* decompress_safe(buf, data_len) returns at most data_len bytes, and whether
\* it rejects fewer is the library's.
Decoded(path, payload) ==
    IF ends_with_lz4(path)
    THEN (IF payload = "corrupt" THEN {Fails("Io")} ELSE {[kind |-> "ok", len |-> payload]})
    ELSE CASE payload = "corrupt" -> {Fails("LzoError")}
           [] payload = "short" -> {Fails("LzoError"), [kind |-> "ok", len |-> "short"]}
           [] OTHER -> {[kind |-> "ok", len |-> "exact"]}

\* The closure of the tiles' map, for one path: the outcomes it may have.
\* (archive.by_name(path) finds the entry: the paths are the archive's own.)
closure(uuid, image, e, self, checks) ==
    LET path == e.name
        dot == find_dot(path)
    IN IF dot < Len(uuid) THEN {Panic}
       ELSE LET cap == captures(SubSeq(path, Len(uuid) + 1, dot))
            IN IF cap = None THEN {Panic}
               ELSE LET col == parse_u32(cap[1][1])
                        row == parse_u32(cap[1][2])
                    IN IF col.of \/ row.of THEN {Panic}
                       ELSE LET t == TileSizeOf(self, col.val, row.val)
                                x == mul(col.val, self.size)
                                y == mul(row.val, self.size)
                            IN IF checks /\ t.of THEN {Panic}
                               ELSE { IF d.kind = "err" THEN d
                                      ELSE IF checks /\ (x.of \/ y.of) THEN Panic
                                      ELSE Uploads(x.val, y.val, t, image, d.len, path) :
                                      d \in Decoded(path, e.payload) }

\* One item of the tiles' parallel iterator runs.
TileClosure(l, e) ==
    /\ loads[l].st = "tiles"
    /\ e \in Matching(l)
    /\ <<l, e.name>> \notin ran
    /\ ran' = ran \cup {<<l, e.name>>}
    /\ \E o \in closure(UUIDs[l], loads[l].image[1], e, tile[1], overflow_checks) :
          CASE o.kind = "panic" -> /\ tiles_panicked' = TRUE
                                   /\ UNCHANGED <<loads, uploads>>
            [] o.kind = "err" -> /\ loads' = [loads EXCEPT ![l].err = Keep(o.err, @)]
                                 /\ UNCHANGED <<uploads, tiles_panicked>>
            [] OTHER -> /\ uploads' = Append(uploads, o.upload)
                        /\ UNCHANGED <<loads, tiles_panicked>>
    /\ UNCHANGED <<archive, tile_counter>>

\* An item the iterator never runs, its collect holding an error already.
SkipTile(l, e) ==
    /\ loads[l].st = "tiles"
    /\ e \in Matching(l)
    /\ <<l, e.name>> \notin ran
    /\ loads[l].err # None
    /\ ran' = ran \cup {<<l, e.name>>}
    /\ UNCHANGED <<archive, loads, uploads, tile_counter, tiles_panicked>>

\* .collect::<Result<(), _>>()?, then the SilicaLayer's keys.  (After a
\* panic of a worker the collect resumes the panic: no load returns.)
LayerCollect(l) ==
    /\ loads[l].st = "tiles"
    /\ ~tiles_panicked
    /\ \A e \in Matching(l) : <<l, e.name>> \in ran
    /\ IF loads[l].err # None
       THEN loads' = [loads EXCEPT ![l].st = "err"]
       ELSE \E rest_ok \in BOOLEAN :
               IF rest_ok THEN loads' = [loads EXCEPT ![l].st = "ok"]
               ELSE loads' = [loads EXCEPT ![l].st = "err", ![l].err = Some("NsArchiveError")]
    /\ UNCHANGED <<archive, ran, uploads, tile_counter, tiles_panicked>>

SpecBlendInit == BlendInit /\ FlatIdle /\ OpenIdle /\ GridIdle /\ TilesIdle
SpecBlendNext ==
    \/ Decode /\ UNCHANGED flatVars /\ UNCHANGED openVars /\ UNCHANGED gridVars /\ UNCHANGED tilesVars
    \/ Encode /\ UNCHANGED flatVars /\ UNCHANGED openVars /\ UNCHANGED gridVars /\ UNCHANGED tilesVars
    \/ EncodeMode /\ UNCHANGED flatVars /\ UNCHANGED openVars /\ UNCHANGED gridVars /\ UNCHANGED tilesVars
    \/ DecodeBack /\ UNCHANGED flatVars /\ UNCHANGED openVars /\ UNCHANGED gridVars /\ UNCHANGED tilesVars
SpecBlend == SpecBlendInit /\ [][SpecBlendNext]_vars

SpecFlatInit == bm = BlendIdle /\ FlatInit /\ OpenIdle /\ GridIdle /\ TilesIdle
SpecFlatNext ==
    \/ Linearize /\ UNCHANGED blendVars /\ UNCHANGED openVars /\ UNCHANGED gridVars /\ UNCHANGED tilesVars
    \/ EnterGroup /\ UNCHANGED blendVars /\ UNCHANGED openVars /\ UNCHANGED gridVars /\ UNCHANGED tilesVars
    \/ VisitLayer /\ UNCHANGED blendVars /\ UNCHANGED openVars /\ UNCHANGED gridVars /\ UNCHANGED tilesVars
    \/ SkipHidden /\ UNCHANGED blendVars /\ UNCHANGED openVars /\ UNCHANGED gridVars /\ UNCHANGED tilesVars
    \/ Return /\ UNCHANGED blendVars /\ UNCHANGED openVars /\ UNCHANGED gridVars /\ UNCHANGED tilesVars
SpecFlat == SpecFlatInit /\ [][SpecFlatNext]_vars

\* The two copies of the flattener on one tree.
SpecCopiesInit == SpecFlatInit
SpecCopiesNext ==
    \/ SpecFlatNext
    \/ GuiLinearize /\ UNCHANGED blendVars /\ UNCHANGED openVars /\ UNCHANGED gridVars /\ UNCHANGED tilesVars
SpecCopies == SpecCopiesInit /\ [][SpecCopiesNext]_vars

SpecOpenInit == bm = BlendIdle /\ FlatIdle /\ OpenInit /\ GridIdle /\ TilesIdle
SpecOpenNext ==
    \/ OpenStart /\ UNCHANGED blendVars /\ UNCHANGED flatVars /\ UNCHANGED gridVars /\ UNCHANGED tilesVars
    \/ \E i \in 0..N : LayerBegin(i) /\ UNCHANGED blendVars /\ UNCHANGED flatVars /\ UNCHANGED gridVars /\ UNCHANGED tilesVars
    \/ \E i \in 0..N : LoadTiles(i) /\ UNCHANGED blendVars /\ UNCHANGED flatVars /\ UNCHANGED gridVars /\ UNCHANGED tilesVars
    \/ \E i \in 0..N : DecodeScalars(i) /\ UNCHANGED blendVars /\ UNCHANGED flatVars /\ UNCHANGED gridVars /\ UNCHANGED tilesVars
    \/ \E g \in 1..N : GroupBegin(g) /\ UNCHANGED blendVars /\ UNCHANGED flatVars /\ UNCHANGED gridVars /\ UNCHANGED tilesVars
    \/ \E i \in 1..N : Skip(i) /\ UNCHANGED blendVars /\ UNCHANGED flatVars /\ UNCHANGED gridVars /\ UNCHANGED tilesVars
    \/ \E g \in 1..N : GroupEnd(g) /\ UNCHANGED blendVars /\ UNCHANGED flatVars /\ UNCHANGED gridVars /\ UNCHANGED tilesVars
    \/ OpenReturn /\ UNCHANGED blendVars /\ UNCHANGED flatVars /\ UNCHANGED gridVars /\ UNCHANGED tilesVars
SpecOpen == SpecOpenInit /\ [][SpecOpenNext]_vars

SpecGridInit == bm = BlendIdle /\ FlatIdle /\ OpenIdle /\ GridInit /\ TilesIdle
SpecGridNext ==
    \/ BuildGrid /\ UNCHANGED blendVars /\ UNCHANGED flatVars /\ UNCHANGED openVars /\ UNCHANGED tilesVars
    \/ TileSize /\ UNCHANGED blendVars /\ UNCHANGED flatVars /\ UNCHANGED openVars /\ UNCHANGED tilesVars
SpecGrid == SpecGridInit /\ [][SpecGridNext]_vars

otherVars == <<blendVars, flatVars, openVars>>
SpecTilesInit == bm = BlendIdle /\ FlatIdle /\ OpenIdle /\ TilesInit
SpecTilesNext ==
    \/ BuildGrid /\ UNCHANGED otherVars /\ UNCHANGED tilesVars
    \/ \E l \in Layers : LayerStart(l) /\ UNCHANGED otherVars /\ UNCHANGED gridVars
    \/ \E l \in Layers : \E e \in archive :
          TileClosure(l, e) /\ UNCHANGED otherVars /\ UNCHANGED gridVars
    \/ \E l \in Layers : \E e \in archive :
          SkipTile(l, e) /\ UNCHANGED otherVars /\ UNCHANGED gridVars
    \/ \E l \in Layers : LayerCollect(l) /\ UNCHANGED otherVars /\ UNCHANGED gridVars
SpecTiles == SpecTilesInit /\ [][SpecTilesNext]_vars

(***************************************************************************)
(* Properties of linearize_silica_layers (under SpecFlat).                 *)
(***************************************************************************)
\* The layers the traversal comes to, in the order it comes to them: the
\* children of a group from last to first, a visible group's layers in the
\* group's place, nothing of a hidden group.  Each with the path of the group
\* it is a child of.
RECURSIVE TravFrom(_, _, _)
TravFrom(children, path, i) ==
    IF i = 0 THEN <<>>
    ELSE LET c == children[i]
         IN (IF c.tag = "Layer" THEN << [layer |-> c.layer, parent |-> path] >>
             ELSE IF c.group.hidden THEN <<>>
             ELSE TravFrom(c.group.children, Append(path, i), Len(c.group.children)))
            \o TravFrom(children, path, i - 1)

Trav == TravFrom(tree.children, <<>>, Len(tree.children))
VisibleTrav == SelectSeq(Trav, LAMBDA e : ~e.layer.hidden)

Terminated == fl_status \in {"done", "panic"}
RecordsOf(image) == {i \in 1..Len(composite_layers) : composite_layers[i].texture = image}

\* The non-clipped layers among the first k - 1 of a traversal list.
MasksBefore(list, k) == {j \in 1..(k - 1) : ~list[j].layer.clipped}
Last(S) == CHOOSE j \in S : \A x \in S : x <= j

\* C3: every record with clipped = Some(s) comes after a record whose
\* texture is s and which was emitted for a visible, non-clipped layer.
C3_ClipSourceEmittedEarlier ==
    \A i \in 1..Len(composite_layers) :
        IsSome(composite_layers[i].clipped) =>
            \E j \in 1..(i - 1) :
                /\ composite_layers[j].texture = composite_layers[i].clipped[1]
                /\ composite_layers[j].clipped = None
                /\ \E e \in {VisibleTrav[k] : k \in 1..Len(VisibleTrav)} :
                      /\ e.layer.image = composite_layers[j].texture
                      /\ ~e.layer.clipped

C3_Witness ==
    /\ fl_status = "done"
    /\ \E i \in 1..Len(composite_layers) : IsSome(composite_layers[i].clipped)

\* The hidden-mask rule as the specification words it: a clipped layer whose
\* mask, the nearest non-clipped layer the traversal came to before it, is
\* hidden.
DependsOnHiddenMask(k) ==
    /\ Trav[k].layer.clipped
    /\ MasksBefore(Trav, k) # {}
    /\ Trav[Last(MasksBefore(Trav, k))].layer.hidden

\* C4: the call returns, with exactly one record for each layer that is not
\* hidden and has no hidden enclosing group (a layer the hidden-mask rule
\* removes may have none), and with no other record; a record's texture,
\* opacity and blend are the layer's, and a non-clipped layer's record has
\* clipped = None.
C4_ExactlyTheVisibleLayers ==
    Terminated =>
        /\ fl_status = "done"
        /\ \A k \in 1..Len(Trav) :
              LET l == Trav[k].layer
              IN IF l.hidden THEN RecordsOf(l.image) = {}
                 ELSE /\ Cardinality(RecordsOf(l.image)) <= 1
                      /\ ~DependsOnHiddenMask(k) => Cardinality(RecordsOf(l.image)) = 1
                      /\ \A i \in RecordsOf(l.image) :
                            /\ composite_layers[i].opacity = l.opacity
                            /\ composite_layers[i].blend = l.blend
                            /\ ~l.clipped => composite_layers[i].clipped = None
        /\ \A i \in 1..Len(composite_layers) :
              \E k \in 1..Len(Trav) : Trav[k].layer.image = composite_layers[i].texture

IsLayer(c, clipped, hidden) ==
    c.tag = "Layer" /\ c.layer.clipped = clipped /\ c.layer.hidden = hidden

C6_HiddenMaskSuppressesClipped ==
    \A k \in 1..Len(Trav) :
        (Trav[k].layer.hidden \/ DependsOnHiddenMask(k))
            => RecordsOf(Trav[k].layer.image) = {}

\* C7: the call never panics.
C7_NeverPanics == fl_status # "panic"

\* The place in VisibleTrav of the layer holding an image slot.
PlaceOf(image) == CHOOSE k \in 1..Len(VisibleTrav) : VisibleTrav[k].layer.image = image

\* C8 as stated: a clipped record's clip source is the slot of the nearest
\* non-clipped layer visited before it among the children of its own group.
C8_ClipSourceIsSibling ==
    \A i \in 1..Len(composite_layers) :
        IsSome(composite_layers[i].clipped) =>
            LET k == PlaceOf(composite_layers[i].texture)
                sib == {j \in MasksBefore(VisibleTrav, k) :
                          VisibleTrav[j].parent = VisibleTrav[k].parent}
            IN /\ sib # {}
               /\ composite_layers[i].clipped = Some(VisibleTrav[Last(sib)].layer.image)

\* C8 amended: a clipped record's clip source is the slot of the nearest
\* visible non-clipped layer the traversal visited before it, whichever
\* group that layer is a child of.
C8_ClipSourceIsLastMask ==
    \A i \in 1..Len(composite_layers) :
        IsSome(composite_layers[i].clipped) =>
            LET k == PlaceOf(composite_layers[i].texture)
                before == MasksBefore(VisibleTrav, k)
            IN /\ before # {}
               /\ composite_layers[i].clipped = Some(VisibleTrav[Last(before)].layer.image)

\* A clipped record whose clip source is a child of another group.
C8_Witness ==
    /\ fl_status = "done"
    /\ \E i \in 1..Len(composite_layers) :
          /\ IsSome(composite_layers[i].clipped)
          /\ VisibleTrav[PlaceOf(composite_layers[i].clipped[1])].parent
               # VisibleTrav[PlaceOf(composite_layers[i].texture)].parent

(***************************************************************************)
(* Properties of BlendingMode (under SpecBlend).                           *)
(***************************************************************************)
\* C9: from_u32 accepts exactly the codes 0..17 and 19..26 and answers
\* Err(InvalidValue) to every other; an accepted code encodes back to
\* itself, and a mode's code decodes back to the mode.
C9_BlendCodes ==
    /\ bm.pc \in {"decoded", "encoded"} =>
          /\ bm.res[1].ok <=> bm.code \in (0..17) \cup (19..26)
          /\ ~bm.res[1].ok => bm.res[1] = Err("InvalidValue")
    /\ bm.pc = "encoded" => bm.back = Some(bm.code)
    /\ bm.pc = "mdone" => bm.res = Some(Ok(bm.mode[1]))

C9_Witness ==
    \/ bm.pc = "decoded" /\ bm.code = 18 /\ ~bm.res[1].ok /\ bm.res[1].err = "InvalidValue"

(***************************************************************************)
(* Properties of open (under SpecOpen).                                    *)
(***************************************************************************)
Returned == phase = "returned"
ReturnedOk == result # None /\ result[1].ok
Document == result[1].val
\* The image slots held by the layers of the returned tree.
TreeSlots == {l.image : l \in LayersOf(Document.layers.children)}
TreeLayerCount == LayerCount(Document.layers.children)

\* C1 as stated: after a successful open the slots held by the layers of
\* the returned tree are exactly 0 .. N-1, N the number of those layers.
C1_TreeSlotsFromZero ==
    ReturnedOk => TreeSlots = 0..(TreeLayerCount - 1)

\* C1 amended: after a successful open the N layers of the returned tree
\* hold N distinct slots: 1 .. N when the composite load, which runs before
\* the tree's, took a slot (its UUID was read), 0 .. N-1 when it took none.
C1_TreeSlotsDense ==
    ReturnedOk =>
        LET base == IF node[Composite].image # None THEN 1 ELSE 0
        IN /\ TreeSlots = base..(base + TreeLayerCount - 1)
           /\ node[Composite].image # None => node[Composite].image = Some(0)

C1_Witness ==
    /\ ReturnedOk
    /\ TreeLayerCount >= 2
    /\ Document.composite # None
    /\ \E l \in LayersOf(Document.layers.children) : l.image = TreeLayerCount

\* C2: the loads, the composite's among them, get distinct slots from the
\* counter, and the values it hands out are 0, 1, 2, ... in this order.
C2_SlotsDistinctNoGaps ==
    /\ \A k \in 1..Len(fetched) : fetched[k] = k - 1
    /\ \A a \in DOMAIN node : \A b \in DOMAIN node :
          (a # b /\ node[a].image # None /\ node[b].image # None)
              => node[a].image # node[b].image
    /\ {node[a].image[1] : a \in {x \in DOMAIN node : node[x].image # None}}
         = {fetched[k] : k \in 1..Len(fetched)}

\* Two layers of the tree loading at once, after the composite took a slot.
C2_Witness ==
    /\ node[Composite].image # None
    /\ \E a \in LayerNodes : \E b \in LayerNodes :
          a # b /\ node[a].st = "tiles" /\ node[b].st = "tiles"

\* The effective blend code of a layer's dictionary, as the claim reads it.
KnownCodes == (0..17) \cup (19..26)
HasUnknownBlend(c) == (IF c.ext # None THEN c.ext[1] ELSE c.blend) \notin KnownCodes
SomeTreeLayerHasUnknownBlend == \E i \in LayerNodes : HasUnknownBlend(doc.ir[i].coder)

\* C10 as stated: with a layer of the tree whose effective blend code is
\* unknown, open ends in Err(InvalidValue).
C10_UnknownBlendGivesInvalidValue ==
    (SomeTreeLayerHasUnknownBlend /\ phase \in {"returned", "panicked"})
        => result = Some(Err("InvalidValue"))

\* A failure that is not an unknown blend code: a key of the root missing
\* (no load was started), or a load of the tree ended in another error.
AnotherFailure ==
    \/ \A i \in 1..N : node[i].st = "idle"
    \/ \E i \in 1..N : node[i].err # None /\ node[i].err # Some("InvalidValue")

\* C10 amended: with a layer of the tree whose effective blend code is
\* unknown, open returns no Document: it panics in a tile or returns an
\* error, which is InvalidValue unless another failure was there.
C10_UnknownBlendGivesNoDocument ==
    SomeTreeLayerHasUnknownBlend =>
        /\ ~ReturnedOk
        /\ Returned => (result[1].err = "InvalidValue" \/ AnotherFailure)

C10_Witness ==
    /\ SomeTreeLayerHasUnknownBlend
    /\ Returned
    /\ result = Some(Err("InvalidValue"))
    /\ ~AnotherFailure

\* C11: an error of the composite's decode never makes open fail: when the
\* decode ended in an error and open has returned, open returned a Document
\* whose composite is None, or the error of a load of the tree.
C11_CompositeErrorsSwallowed ==
    (Returned /\ node[Composite].st = "err") =>
        \/ ReturnedOk /\ Document.composite = None
        \/ ~ReturnedOk /\ saved[Root] # None

Built == grid_status = "built"
\* The sides whose tiles are counted one by one.
Small(a) == a.hi = 0 /\ a.lo <= 128

\* The tiles along one side, each starting where the one before it ends and
\* the last ending at the canvas's extent: their sizes sum to the extent.
SidesSumTo(count, self_size, self_diff, extent) ==
    Small(count) /\ Small(extent) =>
        \A c \in 0..(count.lo - 1) :
            LET side == Side(count, self_size, self_diff, ToU32(c)).val
            IN /\ Small(side)
               /\ c * self_size.lo + side.lo
                    = IF c = count.lo - 1 THEN extent.lo ELSE (c + 1) * self_size.lo

\* One side of the grid as the claim has it: count = ceil(extent / size),
\* count * size >= extent, the tiles' sizes summing to the extent.
SideCovers(count, self_size, self_diff, extent) ==
    /\ ~mul(count, self_size).of
    /\ Le(extent, mul(count, self_size).val)
    /\ Lt(sub(mul(count, self_size).val, extent).val, self_size)
    /\ SidesSumTo(count, self_size, self_diff, extent)

\* C14: for width, height and tile_size >= 1 the grid from_ns builds covers
\* the canvas (columns * tile_size >= width, rows * tile_size >= height),
\* every tile_size(col, row) with col < columns and row < rows is within
\* [1, tile_size] on both sides, and the widths along a row sum to the width,
\* the heights along a column to the height.
C14_TilesCoverCanvas ==
    (Built /\ size.width # Zero /\ size.height # Zero /\ tile_size # Zero) =>
        LET t == tile[1]
        IN /\ SideCovers(t.columns, t.size, t.diff.width, size.width)
           /\ SideCovers(t.rows, t.size, t.diff.height, size.height)
           /\ (tile_rect # None /\ Lt(tile_rect[1].col, t.columns)
                 /\ Lt(tile_rect[1].row, t.rows)) =>
                 /\ Le(One, tile_rect[1].size.width)
                 /\ Le(tile_rect[1].size.width, t.size)
                 /\ Le(One, tile_rect[1].size.height)
                 /\ Le(tile_rect[1].size.height, t.size)

\* C15: the grid's arithmetic has no failure: no panic (a division by zero,
\* an overflow the build checks) and no operation that wrapped.
C15_GridArithmeticNeverFails ==
    grid_status # "panic" /\ ~wrapped

(***************************************************************************)
(* Properties of the tiles' load (under SpecTiles).                        *)
(***************************************************************************)
\* C13: a tile that fails makes its load return an error: no worker panics
\* and no upload carries data of another length than w * h * 4.
C13_TileFailuresAreErrors ==
    /\ ~tiles_panicked
    /\ \A k \in 1..Len(uploads) : uploads[k].len = "exact"

AllLoaded == \A l \in Layers : loads[l].st = "ok"
UploadsOf(l, e) ==
    { k \in 1..Len(uploads) :
        uploads[k].name = e.name /\ uploads[k].image = loads[l].image[1] }

\* The (col, row) the claim reads off an entry's name, a name of layer l.
IndexOf(l, e) ==
    captures(SubSeq(e.name, Len(UUIDs[l]) + 1, find_dot(e.name)))[1]

\* The upload is at (col * tile_size, row * tile_size), of tile_size(col, row).
AtItsTile(u, l, e) ==
    LET col == parse_u32(IndexOf(l, e)[1])
        row == parse_u32(IndexOf(l, e)[2])
        x == mul(col.val, tile[1].size)
        y == mul(row.val, tile[1].size)
        t == TileSizeOf(tile[1], col.val, row.val)
    IN /\ ~col.of /\ ~row.of /\ ~x.of /\ ~y.of /\ ~t.of
       /\ u.origin = <<x.val, y.val>>
       /\ u.size = <<t.width, t.height>>

\* C16: after a successful open every entry whose name starts with a
\* layer's UUID was uploaded exactly once into that layer's slot, at its
\* tile's origin and of its tile's size, and no (origin, slot) was uploaded
\* twice.
C16_OneUploadPerTile ==
    AllLoaded =>
        /\ \A l \in Layers : \A e \in Matching(l) :
              /\ Cardinality(UploadsOf(l, e)) = 1
              /\ \A k \in UploadsOf(l, e) : AtItsTile(uploads[k], l, e)
        /\ \A j \in 1..Len(uploads) : \A k \in 1..Len(uploads) :
              (j # k) => <<uploads[j].origin, uploads[j].image>>
                           # <<uploads[k].origin, uploads[k].image>>

\* [from, from + extent) ends at or before `to`.
EndsBefore(from, extent, to) ==
    ~add(from, extent).of /\ Le(add(from, extent).val, to)

\* Two uploads write no texel in common.
Disjoint(u, v) ==
    \/ u.image # v.image
    \/ EndsBefore(u.origin[1], u.size[1], v.origin[1])
    \/ EndsBefore(v.origin[1], v.size[1], u.origin[1])
    \/ EndsBefore(u.origin[2], u.size[2], v.origin[2])
    \/ EndsBefore(v.origin[2], v.size[2], u.origin[2])

\* C17: any two uploads of one open, of whatever workers, are disjoint.
C17_UploadsDisjoint ==
    \A j \in 1..Len(uploads) : \A k \in 1..Len(uploads) :
        (j # k) => Disjoint(uploads[j], uploads[k])

(***************************************************************************)
(* More properties of from_ns (under SpecOpen).                            *)
(***************************************************************************)
\* The dictionary of the scenario: no extendedBlend, blend = 21.
FallbackCoder == [ext |-> None, blend |-> 21]
LoadedWithFallback(i) ==
    IsLayerNode(i) /\ CoderOf(i) = FallbackCoder /\ node[i].st = "ok"

\* C18 as stated: a layer with no extendedBlend and blend = 21 is loaded
\* with the blend mode LinearLight.
C18_Blend21IsLinearLight ==
    \A i \in DOMAIN node : LoadedWithFallback(i) => node[i].blend = Some("LinearLight")

\* C18 amended: a layer with no extendedBlend and blend = 21 is loaded with
\* the blend mode VividLight, the mode of wire code 21; so it is in the
\* Document open returns.
C18_Blend21IsVividLight ==
    /\ \A i \in DOMAIN node : LoadedWithFallback(i) => node[i].blend = Some("VividLight")
    /\ ReturnedOk =>
          \A l \in LayersOf(Document.layers.children) :
             \A i \in LayerNodes :
                (node[i].image = Some(l.image) /\ CoderOf(i) = FallbackCoder)
                    => l.blend = "VividLight"

\* open returned a Document with a layer of the tree read through the fallback.
C18_Witness ==
    /\ ReturnedOk
    /\ \E i \in LayerNodes : LoadedWithFallback(i)
    /\ \E l \in LayersOf(Document.layers.children) : l.blend = "VividLight"

\* A hierarchy with its image slots blanked.
RECURSIVE Erased(_)
Erased(children) ==
    IF children = <<>> THEN <<>>
    ELSE LET h == Head(children)
         IN (IF h.tag = "Layer"
             THEN << HLayer([h.layer EXCEPT !.image = 0]) >>
             ELSE << HGroup(SilicaGroup(h.group.hidden, Erased(h.group.children))) >>)
            \o Erased(Tail(children))

\* What the container alone says of group g's children from node i on, in
\* the serialized order: the groups, and each layer's scalars.
RECURSIVE Serialized(_, _)
Serialized(g, i) ==
    IF i > N THEN <<>>
    ELSE (IF doc.ir[i].parent # g THEN <<>>
          ELSE IF doc.ir[i].kind = "Layer"
          THEN << HLayer(SilicaLayer(from_u32(EffectiveBlend(doc.ir[i].coder)).val,
                                     FALSE, FALSE, 100, 0)) >>
          ELSE << HGroup(SilicaGroup(FALSE, Serialized(i, i + 1))) >>)
         \o Serialized(g, i + 1)

\* C19: the Document of a successful open is the container's up to the
\* slots, whatever the order the workers ran in: its groups, the order of
\* their children and the layers' scalars are the serialized ones (so two
\* opens differ in slots only), and the slots are a renaming: no two layers
\* share one.
C19_DocumentUpToSlots ==
    ReturnedOk =>
        /\ Erased(Document.layers.children) = Serialized(Root, 1)
        /\ Document.composite # None =>
              Document.composite[1].blend = from_u32(EffectiveBlend(doc.composite)).val
        /\ Cardinality(TreeSlots) = TreeLayerCount
        /\ Document.composite # None => Document.composite[1].image \notin TreeSlots

\* Two layers of different blends under one parent took their slots against
\* the serialized order.
C19_Witness ==
    /\ ReturnedOk
    /\ \E i \in LayerNodes : \E j \in LayerNodes :
          /\ i < j
          /\ doc.ir[i].parent = doc.ir[j].parent
          /\ node[i].blend # node[j].blend
          /\ node[i].image[1] > node[j].image[1]

(***************************************************************************)
(* More properties of linearize_silica_layers (under SpecFlat).            *)
(***************************************************************************)
\* C20: no step of a call changes the tree; a call starts from an empty
\* list and no mask, whatever the call before left; and the call after a
\* call that returned returns the same records in the same order.
C20_DeterministicReadOnly ==
    [][ /\ tree' = tree
        /\ fl_status # "running" /\ fl_status' = "running"
              => mask_layer' = None /\ composite_layers' = <<>>
        /\ (fl_status' = "done" /\ previous' # None)
              => composite_layers' = previous'[1] ]_vars

\* The second call on a tree returned, a clipped record among its records.
C20_Witness ==
    /\ fl_status = "done"
    /\ previous # None
    /\ Len(composite_layers) >= 2
    /\ \E k \in 1..Len(composite_layers) : composite_layers[k].clipped # None

\* The slot of the last non-clipped layer a record was pushed for before
\* place k of the list.
MaskBefore(k) ==
    LET masks == {j \in 1..(k - 1) : composite_layers[j].clipped = None}
    IN IF masks = {} THEN None ELSE Some(composite_layers[Last(masks)].texture)

\* The mask slot holds the last non-clipped layer pushed, whichever group it
\* is a child of, and a clipped record is clipped to the mask then in force.
MaskInForce ==
    /\ mask_layer = None <=> MaskBefore(Len(composite_layers) + 1) = None
    /\ mask_layer # None => Some(mask_layer[1][1]) = MaskBefore(Len(composite_layers) + 1)
    /\ \A i \in 1..Len(composite_layers) :
          composite_layers[i].clipped # None => composite_layers[i].clipped = MaskBefore(i)

\* The steps at a group's boundaries: the call of inner() for a visible
\* group and the return from it leave the mask as it is, and so does the
\* step over a hidden group, which pushes nothing and calls nothing.
MaskKeptAtBoundaries ==
    /\ (fl_status = "running" /\ Len(stack') = Len(stack) + 1)
          => mask_layer' = mask_layer /\ composite_layers' = composite_layers
    /\ (fl_status = "running" /\ Len(stack') = Len(stack) - 1)
          => mask_layer' = mask_layer /\ composite_layers' = composite_layers
    /\ (fl_status = "running" /\ Top.i > 0 /\ Child.tag = "Group" /\ Child.group.hidden)
          => /\ mask_layer' = mask_layer
             /\ composite_layers' = composite_layers
             /\ Len(stack') = Len(stack)

\* C21: the mask persists across group boundaries: entering a visible group
\* and returning from it leave the mask as it is, so a clipped layer is
\* clipped to the last non-clipped layer pushed before it, inside or outside
\* its group; a hidden group changes neither the mask nor the output.
C21_MaskPersistsAcrossGroups ==
    []MaskInForce /\ [][MaskKeptAtBoundaries]_vars

\* A layer of the root clipped to a mask set inside a group visited before it.
C21_Witness ==
    /\ fl_status = "done"
    /\ \E i \in 1..Len(composite_layers) :
          /\ IsSome(composite_layers[i].clipped)
          /\ VisibleTrav[PlaceOf(composite_layers[i].texture)].parent = <<>>
          /\ VisibleTrav[PlaceOf(composite_layers[i].clipped[1])].parent # <<>>

\* The layers under `children` at every depth, each with the indexes of the
\* children that lead to it from the root.
RECURSIVE PathsOf(_, _)
PathsOf(children, path) ==
    UNION { IF children[i].tag = "Layer"
            THEN { [image |-> children[i].layer.image, path |-> Append(path, i)] }
            ELSE PathsOf(children[i].group.children, Append(path, i)) :
            i \in 1..Len(children) }

PathOf(image) == (CHOOSE e \in PathsOf(tree.children, <<>>) : e.image = image).path

\* p and q part at some group, p through the later one of two children.
ThroughLaterChild(p, q) ==
    \E k \in 1..Len(p) :
        /\ k <= Len(q)
        /\ SubSeq(p, 1, k - 1) = SubSeq(q, 1, k - 1)
        /\ p[k] > q[k]

\* C22: the records are in reverse depth-first order: of two records, the
\* earlier one is of a layer under the later child of the group where the
\* two layers' paths part (so a group's records stand in the group's place
\* and no layer has two records).
C22_ReverseDepthFirstOrder ==
    \A a \in 1..Len(composite_layers) : \A b \in 1..Len(composite_layers) :
        a < b => ThroughLaterChild(PathOf(composite_layers[a].texture),
                                   PathOf(composite_layers[b].texture))

\* A layer inside a group and a layer that is an earlier sibling of the
\* group, the group's record first.
C22_Witness ==
    /\ fl_status = "done"
    /\ \E a \in 1..Len(composite_layers) : \E b \in 1..Len(composite_layers) :
          /\ a < b
          /\ Len(PathOf(composite_layers[a].texture)) = 2
          /\ Len(PathOf(composite_layers[b].texture)) = 1

(***************************************************************************)
(* The order of the loads of from_ns (under SpecOpen).                     *)
(***************************************************************************)
\* C23 as stated: the composite's load is attempted only after all layers of
\* the tree have been loaded, and the composite takes no slot before a layer
\* of the tree does.
C23_CompositeAfterTree ==
    /\ node[Composite].st # "idle" => \A i \in LayerNodes : node[i].st = "ok"
    /\ node[Composite].image # None =>
          \A i \in LayerNodes :
              node[i].image # None /\ node[i].image[1] < node[Composite].image[1]

\* C23 amended: the composite's load is attempted first and has ended, in
\* Ok or in an error, before any load of the tree starts; when it took a
\* slot the slot is 0, and every layer of the tree takes a later one.
C23_CompositeBeforeTree ==
    /\ \A i \in 1..N : node[i].st # "idle" => node[Composite].st \in {"ok", "err"}
    /\ node[Composite].image # None =>
          /\ node[Composite].image = Some(0)
          /\ \A i \in LayerNodes : node[i].image # None => node[i].image[1] > 0

\* A layer of the tree at its tiles, the composite loaded into slot 0.
C23_Witness ==
    /\ node[Composite].st = "ok"
    /\ node[Composite].image = Some(0)
    /\ \E i \in LayerNodes : node[i].st = "tiles" /\ node[i].image = Some(1)

AllLayerNodes == {i \in DOMAIN node : IsLayerNode(i)}
\* The load ended in an error of a scalar field other than the UUID's.
FailedInScalars(i) ==
    /\ node[i].st = "err"
    /\ node[i].err = Some("InvalidValue")

\* C24 as stated: a load reads and validates its scalar fields before it
\* takes a slot and before it uploads a tile: a load that holds a slot has
\* its blend decoded, and a load that failed in a scalar field holds none.
C24_ScalarsBeforeSlot ==
    \A i \in AllLayerNodes :
        /\ node[i].image # None => node[i].blend # None
        /\ FailedInScalars(i) => node[i].image = None

\* C24 amended: a load reads the UUID, takes its slot, decodes and uploads
\* its tiles, and only then reads the other scalar fields: at its tiles it
\* holds a slot and no blend yet, a blend is decoded only in a load that
\* holds a slot, a load that failed in the blend has taken a slot, and a
\* load that ended with no slot failed at the UUID.
C24_UuidSlotTilesScalars ==
    \A i \in AllLayerNodes :
        /\ node[i].st \in {"tiles", "scalars"} => node[i].image # None /\ node[i].blend = None
        /\ node[i].blend # None => node[i].image # None /\ node[i].st = "ok"
        /\ FailedInScalars(i) => node[i].image # None
        /\ (node[i].st = "err" /\ node[i].image = None) => node[i].err = Some("NsArchiveError")

\* A layer of the tree failed in its blend after it took a slot and its
\* tiles were uploaded, and open returned the error.
C24_Witness ==
    /\ Returned
    /\ result = Some(Err("InvalidValue"))
    /\ \E i \in LayerNodes : FailedInScalars(i) /\ node[i].image # None

\* A load that was started and has not ended: a layer at its tiles or at
\* its scalars, a group collecting its children.
InFlight(i) == node[i].st \in {"tiles", "scalars", "open"}

\* C25: open returns, with a Document or with an error, only after every
\* load it started has ended, also when a tile failed and the collect took
\* its error: at the return no load is in flight, and after it no load
\* moves, no slot is taken and no error is saved.
C25_ReturnsAfterWorkers ==
    /\ [](Returned => \A i \in DOMAIN node : ~InFlight(i))
    /\ [][Returned => UNCHANGED <<node, counter, fetched, saved>>]_vars

\* open returned the error of a tile of one layer, and the load of another
\* layer, which took its slot after the first one, ran to its end.
C25_Witness ==
    /\ Returned
    /\ result = Some(Err("LzoError"))
    /\ \E i \in LayerNodes : \E j \in LayerNodes :
          /\ node[i].err = Some("LzoError")
          /\ node[j].st = "ok"
          /\ node[j].image[1] > node[i].image[1]

(***************************************************************************)
(* The bounds of the uploads (under SpecTiles).                            *)
(***************************************************************************)
\* The layers of the texture array from_ns allocates: the layer count + 1.
AllocatedLayers == Len(UUIDs) + 1

\* C26: every upload stays inside the texture array: its slot is below the
\* allocated layer count, and its rectangle ends within the canvas on both
\* sides, whatever col and row its entry's name gives.
C26_UploadsInsideTexture ==
    \A k \in 1..Len(uploads) :
        /\ uploads[k].image < AllocatedLayers
        /\ EndsBefore(uploads[k].origin[1], uploads[k].size[1], size.width)
        /\ EndsBefore(uploads[k].origin[2], uploads[k].size[2], size.height)

(***************************************************************************)
(* The two copies of the flattener (under SpecCopies).                     *)
(***************************************************************************)
\* C27: on every tree the copy of gui/app.rs and the copy of app.rs end the
\* same way: one panics exactly when the other does, and when they return
\* they return the same records (texture, clipped, opacity, blend) in the
\* same order.
C27_CopiesEquivalent ==
    (Terminated /\ gui_layers # None) =>
        /\ gui_layers[1].panic <=> fl_status = "panic"
        /\ fl_status = "done" => gui_layers[1].out = composite_layers

\* Both copies returned, a record clipped to a layer of another group among
\* the records.
C27_Witness ==
    /\ fl_status = "done"
    /\ gui_layers # None
    /\ ~gui_layers[1].panic
    /\ \E k \in 1..Len(gui_layers[1].out) :
          /\ gui_layers[1].out[k].clipped # None
          /\ Len(PathOf(gui_layers[1].out[k].texture))
               # Len(PathOf(gui_layers[1].out[k].clipped[1]))

====
